---- MODULE Spec2Model ----
(***************************************************************************)
(* Model of pycycling/rear_view_radar.py: the two radar decoders           *)
(* (GarminVariaRadar, BrytonGardiaRadar), the notification handler that    *)
(* dispatches decoded measurements to the registered callback, and the     *)
(* RearViewRadarService facade over a BLE client.                          *)
(***************************************************************************)
EXTENDS Integers, Sequences, FiniteSets, TLC

VARIABLES
    radar,        \* RearViewRadarService._radar: the class chosen at construction
    callback,     \* <radar>._radar_measurement_callback
    requests,     \* requests the session has issued to the client, in order
    notifying,    \* client side: a notification subscription is active
    enableCalls,  \* number of enable_radar_measurement_notifications calls
    disableCalls, \* number of disable_radar_measurement_notifications calls
    last,         \* what the most recent operation on the session did
    input,        \* payload handed to _parse_radar_measurement
    output,       \* what _parse_radar_measurement returned or raised
    pc            \* "ready" before the decode call, "done" after it

vars == <<radar, callback, requests, notifying, enableCalls, disableCalls,
          last, input, output, pc>>

sessionVars == <<radar, callback, requests, notifying, enableCalls,
                 disableCalls, last>>

decodeVars == <<input, output, pc>>

(***************************************************************************)
(* Bounds of the model.                                                    *)
(***************************************************************************)
MaxLen == 7          \* longest payload given to the byte-aligned decoder
ExtraLen == 1        \* bytes a bit-packed payload may carry beyond the 8 unpacked
MaxCalls == 3        \* enable / disable calls made on one session
NumObservers == 2    \* distinct callbacks the application registers

(***************************************************************************)
(* Python values.                                                          *)
(***************************************************************************)
None == -1

Variants == {"GarminVariaRadar", "BrytonGardiaRadar"}

Observers == 1..NumObservers

\* Integer bit operations on non-negative ints, bit by bit.
RECURSIVE BitAnd(_, _)
BitAnd(a, b) ==
    IF a = 0 \/ b = 0 THEN 0
    ELSE ((a % 2) * (b % 2)) + 2 * BitAnd(a \div 2, b \div 2)

RECURSIVE BitOr(_, _)
BitOr(a, b) ==
    IF a = 0 THEN b
    ELSE IF b = 0 THEN a
    ELSE (IF (a % 2) + (b % 2) > 0 THEN 1 ELSE 0) + 2 * BitOr(a \div 2, b \div 2)

Shr(a, n) == a \div (2 ^ n)

Shl(a, n) == a * (2 ^ n)

(***************************************************************************)
(* RadarMeasurement = namedtuple('RadarMeasurement',                       *)
(*                        ['threat_id', 'level', 'speed', 'distance'])     *)
(***************************************************************************)
RadarMeasurementFields == <<"threat_id", "level", "speed", "distance">>

NoMeasurement == [threat_id |-> None, level |-> None, speed |-> None, distance |-> None]

\* The namedtuple constructor called with positional arguments: it raises
\* TypeError unless it gets one argument per field.
RadarMeasurement(args) ==
    IF Len(args) = Len(RadarMeasurementFields)
    THEN [ok |-> TRUE,
          val |-> [threat_id |-> args[1], level |-> args[2],
                   speed |-> args[3], distance |-> args[4]]]
    ELSE [ok |-> FALSE, val |-> NoMeasurement]

(***************************************************************************)
(* Outcomes of a call: a returned list, a returned None, or a raised       *)
(* exception.                                                              *)
(***************************************************************************)
ReturnList(recs) == [kind |-> "list", recs |-> recs]

ReturnNone == [kind |-> "None", recs |-> <<>>]

Raise(exc) == [kind |-> exc, recs |-> <<>>]

NotCalled == [kind |-> "not called", recs |-> <<>>]

Raised(r) == r.kind \in {"TypeError", "struct.error", "BleakError"}

(***************************************************************************)
(* BrytonGardiaRadar._parse_radar_measurement                              *)
(***************************************************************************)
\* struct.calcsize("BBB3BBB")
UnpackSize == 8

\* struct.unpack in place of struct.unpack_from: the buffer must hold
\* exactly the 8 bytes.
UnpackExact(data) ==
    IF Len(data) # UnpackSize
    THEN [ok |-> FALSE, f |-> <<>>]
    ELSE [ok |-> TRUE, f |-> data]

\* struct.unpack_from("BBB3BBB", data): the first 8 bytes, or struct.error
\* when the buffer holds fewer.
UnpackFrom(data) ==
    IF Len(data) < UnpackSize
    THEN [ok |-> FALSE, f |-> <<>>]
    ELSE [ok |-> TRUE, f |-> SubSeq(data, 1, UnpackSize)]

ThreatLevel(threat_level, n) == BitAnd(Shr(threat_level, 2 * (n - 1)), 3)

threat_1_distance(d1, d2, d3) == BitAnd(Shr(d1, 0), 63)

\* threat_2_distance with the low bits of the second byte not shifted.
threat_2_distance_unshifted(d1, d2, d3) ==
    BitOr(BitAnd(Shr(d1, 6), 3), BitAnd(Shr(d2, 0), 15))

threat_2_distance(d1, d2, d3) ==
    BitOr(BitAnd(Shr(d1, 6), 3), Shl(BitAnd(Shr(d2, 0), 15), 2))

threat_3_distance(d1, d2, d3) ==
    BitOr(BitAnd(Shr(d2, 4), 15), Shl(BitAnd(Shr(d3, 0), 3), 4))

threat_4_distance(d1, d2, d3) == BitAnd(Shr(d3, 2), 63)

threat_1_speed(s1, s2) == BitAnd(Shr(s1, 0), 15)

threat_2_speed(s1, s2) == BitAnd(Shr(s1, 4), 15)

threat_3_speed(s1, s2) == BitAnd(Shr(s2, 0), 15)

threat_4_speed(s1, s2) == BitAnd(Shr(s2, 4), 15)

\* BrytonAppend without its level filter.
BrytonAppendUnfiltered(recs, level, speed, distance) ==
    Append(recs, RadarMeasurement(<<None, level, speed, distance>>).val)

\* The two conditional appends that build radar_measurements.
BrytonAppend(recs, level, speed, distance) ==
    IF level > 0
    THEN LET m == RadarMeasurement(<<None, level, speed, distance>>)
         IN  Append(recs, m.val)
    ELSE recs

BrytonParse(data) ==
    LET u == UnpackFrom(data) IN
    IF ~u.ok THEN Raise("struct.error")
    ELSE LET threat_level == u.f[2]
             d1 == u.f[4]
             d2 == u.f[5]
             d3 == u.f[6]
             s1 == u.f[7]
             s2 == u.f[8]
             first == BrytonAppend(<<>>, ThreatLevel(threat_level, 1),
                                   threat_1_speed(s1, s2),
                                   threat_1_distance(d1, d2, d3))
             second == BrytonAppend(first, ThreatLevel(threat_level, 2),
                                    threat_2_speed(s1, s2),
                                    threat_2_distance(d1, d2, d3))
         IN  ReturnList(second)

(***************************************************************************)
(* GarminVariaRadar._parse_radar_measurement                               *)
(***************************************************************************)
\* Parameters of the function as declared: (data), without self.
GarminParseParams == <<"data">>

\* for i in range(1, len(data), 3): i is the 0-based index of the group.
RECURSIVE GarminLoop(_, _, _)
GarminLoop(data, i, recs) ==
    IF i >= Len(data) THEN ReturnList(recs)
    ELSE IF i + 1 >= Len(data) \/ i + 2 >= Len(data)
         THEN ReturnNone                       \* IndexError caught
    ELSE LET threat_id == data[i + 1]
             distance == data[i + 2]
             speed == data[i + 3]
             m == RadarMeasurement(<<threat_id, speed, distance>>)
         IN  IF ~m.ok THEN Raise("TypeError")  \* not an IndexError: propagates
             ELSE GarminLoop(data, i + 3, Append(recs, m.val))

\* The function body applied to a payload.
GarminParse(data) == GarminLoop(data, 1, <<>>)

\* self._parse_radar_measurement(data): the bound call passes self and data
\* to a function declared with GarminParseParams.
GarminBoundParse(data) ==
    IF Len(<<"self", "data">>) # Len(GarminParseParams)
    THEN Raise("TypeError")
    ELSE GarminParse(data)

(***************************************************************************)
(* The session: one radar object bound to a BLE client.                    *)
(***************************************************************************)
RADAR_CHARACTERISTIC_ID(variant) ==
    IF variant = "BrytonGardiaRadar"
    THEN "f3641401-00b0-4240-ba50-05ca45bf8abc"
    ELSE "6a4e3203-667b-11e3-949a-0800200c9a66"

\* self._parse_radar_measurement(data) as the handler of each class calls it.
BoundParse(variant, data) ==
    IF variant = "BrytonGardiaRadar" THEN BrytonParse(data)
    ELSE GarminBoundParse(data)

\* The handler decoding before it looks at the callback slot.
NotificationHandlerParseFirst(variant, cb, data) ==
    LET parsed == BoundParse(variant, data) IN
    IF Raised(parsed)
    THEN [outcome |-> parsed.kind, invoked |-> <<>>]
    ELSE IF cb = None
    THEN [outcome |-> "returned", invoked |-> <<>>]
    ELSE [outcome |-> "returned",
          invoked |-> <<[observer |-> cb, arg |-> parsed]>>]

\* <radar>._radar_measurement_notification_handler(sender, data) with the
\* callback slot holding cb: the exception it raises, if any, and the calls
\* it makes to the callback.
NotificationHandler(variant, cb, data) ==
    IF cb = None
    THEN [outcome |-> "returned", invoked |-> <<>>]
    ELSE LET parsed == BoundParse(variant, data) IN
         IF Raised(parsed)
         THEN [outcome |-> parsed.kind, invoked |-> <<>>]
         ELSE [outcome |-> "returned",
               invoked |-> <<[observer |-> cb, arg |-> parsed]>>]

\* Replies of the client to start_notify / stop_notify.
ClientReplies == {"returned", "BleakError"}

StartNotifyRequest(variant) ==
    [op |-> "start_notify", uuid |-> RADAR_CHARACTERISTIC_ID(variant),
     cb |-> "_radar_measurement_notification_handler"]

StopNotifyRequest(variant) ==
    [op |-> "stop_notify", uuid |-> RADAR_CHARACTERISTIC_ID(variant),
     cb |-> "-"]

\* enable guarded against a second subscription.
EnableRequestsGuarded(variant, active) ==
    IF active THEN <<>> ELSE <<StartNotifyRequest(variant)>>

\* Requests enable_radar_measurement_notifications sends to the client.
EnableRequests(variant, active) == <<StartNotifyRequest(variant)>>

\* Requests disable_radar_measurement_notifications sends to the client.
DisableRequests(variant, active) == <<StopNotifyRequest(variant)>>

Seq0(n) == [i \in 1..n |-> 0]

\* Payloads the client delivers to a session in the model.
SessionPayloads ==
    { <<>>, <<0>>, <<0, 5>>, <<0, 5, 10, 20>>, <<0, 5, 10, 20, 6>>,
      Seq0(7), Seq0(8), Seq0(9),
      <<0, 1, 0, 63, 0, 0, 15, 0>>,
      <<0, 13, 0, 200, 5, 0, 33, 0>>,
      <<7, 240, 3, 255, 255, 255, 255, 255>>,
      <<0, 6, 0, 64, 1, 0, 16, 0, 170>> }

\* op: the operation; outcome: "returned" or the exception that reached the
\* caller; data: the payload delivered; invoked: the callback calls made;
\* sent: the requests sent to the client; reply: the client's answer to them.
LastOp(op, outcome, data, invoked, sent, reply) ==
    [op |-> op, outcome |-> outcome, data |-> data, invoked |-> invoked,
     sent |-> sent, reply |-> reply]

\* RearViewRadarService.set_radar_measurement_handler(callback)
SetHandler(cb) ==
    /\ callback' = cb
    /\ last' = LastOp("set_radar_measurement_handler", "returned", <<>>, <<>>, <<>>, "-")
    /\ UNCHANGED <<radar, requests, notifying, enableCalls, disableCalls>>
    /\ UNCHANGED decodeVars

\* RearViewRadarService.enable_radar_measurement_notifications()
Enable(reply) ==
    /\ enableCalls < MaxCalls
    /\ enableCalls' = enableCalls + 1
    /\ LET sent == EnableRequests(radar, notifying) IN
       /\ requests' = requests \o sent
       /\ notifying' = IF Len(sent) > 0 /\ reply = "returned" THEN TRUE ELSE notifying
       /\ last' = LastOp("enable_radar_measurement_notifications",
                         IF Len(sent) > 0 THEN reply ELSE "returned",
                         <<>>, <<>>, sent, reply)
    /\ UNCHANGED <<radar, callback, disableCalls>>
    /\ UNCHANGED decodeVars

\* RearViewRadarService.disable_radar_measurement_notifications()
Disable(reply) ==
    /\ disableCalls < MaxCalls
    /\ disableCalls' = disableCalls + 1
    /\ LET sent == DisableRequests(radar, notifying) IN
       /\ requests' = requests \o sent
       /\ notifying' = IF Len(sent) > 0 /\ reply = "returned" THEN FALSE ELSE notifying
       /\ last' = LastOp("disable_radar_measurement_notifications",
                         IF Len(sent) > 0 THEN reply ELSE "returned",
                         <<>>, <<>>, sent, reply)
    /\ UNCHANGED <<radar, callback, enableCalls>>
    /\ UNCHANGED decodeVars

\* The client delivers one notification: it calls the handler it was given.
Deliver(data) ==
    /\ notifying
    /\ LET h == NotificationHandler(radar, callback, data) IN
       last' = LastOp("deliver", h.outcome, data, h.invoked, <<>>, "-")
    /\ UNCHANGED <<radar, callback, requests, notifying, enableCalls, disableCalls>>
    /\ UNCHANGED decodeVars

\* RearViewRadarService(client, radar=...): the state after construction.
Init ==
    /\ radar \in Variants
    /\ callback = None
    /\ requests = <<>>
    /\ notifying = FALSE
    /\ enableCalls = 0
    /\ disableCalls = 0
    /\ last = LastOp("__init__", "returned", <<>>, <<>>, <<>>, "-")
    /\ input = <<>>
    /\ output = NotCalled
    /\ pc = "idle"

Next ==
    \/ \E cb \in Observers \cup {None} : SetHandler(cb)
    \/ \E reply \in ClientReplies : Enable(reply)
    \/ \E reply \in ClientReplies : Disable(reply)
    \/ \E data \in SessionPayloads : Deliver(data)

Spec == Init /\ [][Next]_vars

(***************************************************************************)
(* The decoders as pure functions: a payload is drawn, the decoder of the  *)
(* chosen class is applied to it once.                                     *)
(***************************************************************************)
GarminBytes == {0, 5, 10, 20}

GarminPayloads == UNION {[1..n -> GarminBytes] : n \in 0..MaxLen}

\* Levels of the four slots: every combination for slots 1 and 2, none or
\* the highest for slots 3 and 4 together.
LevelBytes == {l1 + 4 * l2 + h : l1 \in 0..3, l2 \in 0..3, h \in {0, 240}}

PageBytes == {0, 255}

SideBytes == {0, 255}

Distance1Bytes == {0, 1, 63, 64, 127, 192, 255}

Distance2Bytes == {0, 1, 15, 16, 255}

Distance3Bytes == {0, 255}

Speed1Bytes == {0, 1, 15, 16, 240, 255}

Speed2Bytes == {0, 255}

TrailingBytes == {170}

\* Payloads of exactly the unpacked size, field by field.
BrytonFull ==
    PageBytes \X LevelBytes \X SideBytes \X Distance1Bytes \X Distance2Bytes
        \X Distance3Bytes \X Speed1Bytes \X Speed2Bytes

\* Full payloads, full payloads followed by up to ExtraLen more bytes, and
\* the truncations of a few full payloads.
BrytonPayloads ==
    BrytonFull
    \cup {p \o t : p \in BrytonFull,
                   t \in UNION {[1..n -> TrailingBytes] : n \in 1..ExtraLen}}
    \cup {SubSeq(p, 1, n) : p \in {q \in SessionPayloads : Len(q) >= UnpackSize},
                            n \in 0..(UnpackSize - 1)}

Payloads(variant) ==
    IF variant = "BrytonGardiaRadar" THEN BrytonPayloads ELSE GarminPayloads

\* GarminVariaRadar._parse_radar_measurement(input)
DecodeGarmin ==
    /\ radar = "GarminVariaRadar"
    /\ pc = "ready"
    /\ output' = GarminParse(input)
    /\ pc' = "done"
    /\ UNCHANGED input
    /\ UNCHANGED sessionVars

\* BrytonGardiaRadar(client)._parse_radar_measurement(input)
DecodeBryton ==
    /\ radar = "BrytonGardiaRadar"
    /\ pc = "ready"
    /\ output' = BrytonParse(input)
    /\ pc' = "done"
    /\ UNCHANGED input
    /\ UNCHANGED sessionVars

InitDecode ==
    /\ radar \in Variants
    /\ callback = None
    /\ requests = <<>>
    /\ notifying = FALSE
    /\ enableCalls = 0
    /\ disableCalls = 0
    /\ last = LastOp("__init__", "returned", <<>>, <<>>, <<>>, "-")
    /\ input \in Payloads(radar)
    /\ output = NotCalled
    /\ pc = "ready"

NextDecode == DecodeGarmin \/ DecodeBryton

SpecDecode == InitDecode /\ [][NextDecode]_vars

(***************************************************************************)
(* Properties of the decoders (checked under SpecDecode).                  *)
(***************************************************************************)
GarminDone == pc = "done" /\ radar = "GarminVariaRadar"

BrytonDone == pc = "done" /\ radar = "BrytonGardiaRadar"

\* Number of complete 3-byte groups after the framing byte.
Groups(data) == (Len(data) - 1) \div 3

\* C1: the byte-aligned decoder, given a payload of length 1+3i with i >= 1,
\* returns exactly i records in payload order, the k-th with
\* threat_id = byte[1+3k], distance = byte[2+3k], speed = byte[3+3k].
C1_GarminDecodesEveryGroup ==
    (GarminDone /\ Len(input) >= 4 /\ (Len(input) - 1) % 3 = 0) =>
        /\ output.kind = "list"
        /\ Len(output.recs) = Groups(input)
        /\ \A k \in 0..(Groups(input) - 1) :
              /\ output.recs[k + 1].threat_id = input[2 + 3 * k]
              /\ output.recs[k + 1].distance = input[3 + 3 * k]
              /\ output.recs[k + 1].speed = input[4 + 3 * k]

\* Level bits of slot n, by arithmetic on the threat_level byte.
LevelBits(data, n) == (data[2] \div (4 ^ (n - 1))) % 4

\* The surfaced slots whose level bits are nonzero, in slot order.
NonzeroSlots(data) == SelectSeq(<<1, 2>>, LAMBDA n : LevelBits(data, n) # 0)

\* C2: for an 8-byte payload the bit-packed decoder returns one record per
\* slot n in {1,2} whose level bits are nonzero, slot 1 before slot 2, and
\* none for slots 3 and 4; at most 2 records, each with level in 1..3 and no
\* threat_id; the all-zero payload gives the empty list.
C2_BrytonEmitsNonzeroSlots ==
    (BrytonDone /\ Len(input) = UnpackSize) =>
        /\ output.kind = "list"
        /\ Len(output.recs) = Len(NonzeroSlots(input))
        /\ Len(output.recs) <= 2
        /\ \A k \in 1..Len(output.recs) :
              /\ output.recs[k].level = LevelBits(input, NonzeroSlots(input)[k])
              /\ output.recs[k].level \in 1..3
              /\ output.recs[k].threat_id = None
        /\ (\A j \in 1..UnpackSize : input[j] = 0) => output.recs = <<>>

\* Slot 1 empty, slot 2 occupied, slots 3 and 4 with nonzero level bits: one
\* record, that of slot 2.
C2_Witness ==
    /\ BrytonDone
    /\ Len(input) = UnpackSize
    /\ input[2] = 248
    /\ Len(output.recs) = 1
    /\ output.recs[1].level = 2

\* Scale factors, in thousandths: 3.125 and 3.04 * 3.6.
DistanceScaleMilli == 3125

SpeedScaleMilli == 10944

\* Raw 6-bit distance and 4-bit speed of slot n, by arithmetic on the bytes.
RawDistance(data, n) ==
    IF n = 1 THEN data[4] % 64 ELSE (data[4] \div 64) + 4 * (data[5] % 16)

RawSpeed(data, n) == IF n = 1 THEN data[7] % 16 ELSE data[7] \div 16

\* C3: every record of the bit-packed decoder carries distance = raw * 3.125
\* and speed = raw * 3.04 * 3.6 (compared in thousandths).
C3_BrytonRecordsAreScaled ==
    (BrytonDone /\ Len(input) = UnpackSize /\ output.kind = "list") =>
        \A k \in 1..Len(output.recs) :
            LET n == NonzeroSlots(input)[k] IN
            /\ output.recs[k].distance * 1000 = RawDistance(input, n) * DistanceScaleMilli
            /\ output.recs[k].speed * 1000 = RawSpeed(input, n) * SpeedScaleMilli

\* C6: the byte-aligned decoder returns None for every payload whose last
\* group is incomplete, also when complete groups precede it.
C6_GarminUnderrunReturnsNone ==
    (GarminDone /\ Len(input) >= 2 /\ (Len(input) - 1) % 3 # 0) =>
        output.kind = "None"

\* C7 as stated: a bit-packed payload whose length is not exactly 8 ends in
\* a decode fault and never returns a list.
C7_BrytonFaultsUnlessExactly8 ==
    (BrytonDone /\ Len(input) # UnpackSize) => output.kind = "struct.error"

\* C7 amended: a payload shorter than 8 bytes ends in struct.error; a payload
\* of 8 bytes or more returns the list decoded from its first 8 bytes.
C7_BrytonFaultsIffShorterThan8 ==
    BrytonDone =>
        /\ Len(input) < UnpackSize => output.kind = "struct.error"
        /\ Len(input) >= UnpackSize =>
              /\ output.kind = "list"
              /\ output = BrytonParse(SubSeq(input, 1, UnpackSize))

\* An over-long payload that decoded to records.
C7_Witness ==
    /\ BrytonDone
    /\ Len(input) > UnpackSize
    /\ output.kind = "list"
    /\ Len(output.recs) = 2

\* The record of slot n, by arithmetic on the bytes.
ExpectedRecord(data, n) ==
    [threat_id |-> None, level |-> LevelBits(data, n),
     speed |-> RawSpeed(data, n), distance |-> RawDistance(data, n)]

\* C10: for an 8-byte payload the raw fields of the records are
\* slot 1: distance = dist1 mod 64, speed = speed1 mod 16;
\* slot 2: distance = (dist1 div 64) + 4 * (dist2 mod 16), speed = speed1 div 16;
\* level of slot n = (threat_level div 4^(n-1)) mod 4; distances are in 0..63
\* and speeds in 0..15; page and threat_side do not influence the output.
C10_BrytonBitWindows ==
    (BrytonDone /\ Len(input) = UnpackSize) =>
        /\ output.kind = "list"
        /\ Len(output.recs) = Len(NonzeroSlots(input))
        /\ \A k \in 1..Len(output.recs) :
              /\ output.recs[k] = ExpectedRecord(input, NonzeroSlots(input)[k])
              /\ output.recs[k].distance \in 0..63
              /\ output.recs[k].speed \in 0..15
        /\ \A p \in PageBytes, t \in SideBytes :
              BrytonParse([input EXCEPT ![1] = p, ![3] = t]) = output

\* Both slots emitted, slot 2's distance taken from both dist1 and dist2.
C10_Witness ==
    /\ BrytonDone
    /\ Len(input) = UnpackSize
    /\ input[4] = 192
    /\ input[5] = 15
    /\ input[7] = 240
    /\ Len(output.recs) = 2
    /\ output.recs[2].distance = 63
    /\ output.recs[2].speed = 15

(***************************************************************************)
(* Properties of the session (checked under Spec).                         *)
(***************************************************************************)
\* What the decoder of the class makes of a payload when applied to it.
Decoded(variant, data) ==
    IF variant = "BrytonGardiaRadar" THEN BrytonParse(data) ELSE GarminParse(data)

\* C4: for either class, a delivery that arrives while a callback is
\* registered and whose payload decodes to a list makes exactly one call, to
\* the callback registered last, with that list.
C4_DeliveryInvokesCurrentObserverOnce ==
    (last.op = "deliver" /\ callback # None
        /\ Decoded(radar, last.data).kind = "list") =>
        /\ last.outcome = "returned"
        /\ last.invoked = <<[observer |-> callback, arg |-> Decoded(radar, last.data)]>>

\* C5: a delivery to a byte-aligned session whose payload decodes to None is
\* dropped: the callback is not called and no exception reaches the client.
C5_GarminUnderrunDroppedSilently ==
    (last.op = "deliver" /\ radar = "GarminVariaRadar" /\ callback # None
        /\ Decoded(radar, last.data).kind = "None") =>
        /\ last.invoked = <<>>
        /\ last.outcome = "returned"

\* C8: with no callback registered, a delivery of any payload to a session of
\* either class raises nothing, calls nothing and changes neither the
\* callback slot nor the subscription nor the requests sent.
C8_NoObserverNoEffect ==
    [][((\E data \in SessionPayloads : Deliver(data)) /\ callback = None) =>
          /\ last'.outcome = "returned"
          /\ last'.invoked = <<>>
          /\ callback' = None
          /\ notifying' = notifying
          /\ requests' = requests]_vars

\* A truncated payload delivered to a byte-aligned session with no callback.
C8_Witness ==
    /\ last.op = "deliver"
    /\ callback = None
    /\ radar = "GarminVariaRadar"
    /\ last.data = <<0, 5>>
    /\ last.outcome = "returned"
    /\ last.invoked = <<>>

CountOp(log, op) == Cardinality({i \in 1..Len(log) : log[i].op = op})

\* C9: every enable call sends exactly one start_notify and every disable
\* call exactly one stop_notify, for the characteristic of the class chosen
\* at construction, start_notify with the notification handler as callback;
\* whatever the client answers to that one request is what the caller gets.
C9_OneRequestPerCall ==
    /\ CountOp(requests, "start_notify") = enableCalls
    /\ CountOp(requests, "stop_notify") = disableCalls
    /\ Len(requests) = enableCalls + disableCalls
    /\ \A i \in 1..Len(requests) :
          /\ radar = "GarminVariaRadar" =>
                requests[i].uuid = "6a4e3203-667b-11e3-949a-0800200c9a66"
          /\ radar = "BrytonGardiaRadar" =>
                requests[i].uuid = "f3641401-00b0-4240-ba50-05ca45bf8abc"
          /\ requests[i].op = "start_notify" =>
                requests[i].cb = "_radar_measurement_notification_handler"
    /\ last.op = "enable_radar_measurement_notifications" =>
          /\ Len(last.sent) = 1
          /\ last.sent[1].op = "start_notify"
          /\ last.outcome = last.reply
    /\ last.op = "disable_radar_measurement_notifications" =>
          /\ Len(last.sent) = 1
          /\ last.sent[1].op = "stop_notify"
          /\ last.outcome = last.reply

\* A second enable while subscribed, then a disable the client rejects.
C9_Witness ==
    /\ enableCalls = 2
    /\ disableCalls = 1
    /\ Len(requests) = 3
    /\ requests[1].op = "start_notify"
    /\ requests[2].op = "start_notify"
    /\ requests[3].op = "stop_notify"
    /\ notifying
    /\ last.op = "disable_radar_measurement_notifications"
    /\ last.outcome = "BleakError"

====
